---- MODULE Spec2Model ----
(***************************************************************************)
(* A model of srvr, a static file server: encoding negotiation             *)
(* (encoding.rs), candidate paths (paths.rs), the file cache               *)
(* (file_cache.rs), the request handler (app.rs) and the partial responses *)
(* (partial.rs).                                                           *)
(*                                                                         *)
(* Text is modelled as a sequence of lexemes: a lexeme is a separator      *)
(* (",", ";", " ", "/", "."), a percent escape, or a word without          *)
(* separators.  Time is counted in ticks, TicksPerSec of them to a second. *)
(***************************************************************************)
EXTENDS Integers, Sequences, FiniteSets, TLC

VARIABLES
    neg,        \* negotiation of one Accept-Encoding header (encoding.rs)
    col,        \* candidate collection for one URI (app.rs 193-217, paths.rs)
    par,        \* one partial response for a Found entry and a Range (partial.rs)
    fs,         \* the filesystem: physical path -> file
    now,        \* the filesystem clock, in ticks
    cache,      \* FileCache.files: physical path -> FileCacheEntry
    lock,       \* the RwLock around FileCache.files
    pc,         \* per request slot: position in root / serve_file / read_file
    request,    \* per request slot: the request being handled
    idx,        \* per request slot: index of the candidate being tried
    meta,       \* per request slot: the Metadata taken by serve_file
    entry,      \* per request slot: the FileCacheEntry serve_file works with
    resp,       \* per request slot: the response returned by root
    accessed,   \* per request slot: physical paths passed to the filesystem or the cache
    started     \* per request slot: the clock when root was entered

pureVars == <<neg, col, par>>
srvVars  == <<fs, now, cache, lock, pc, request, idx, meta, entry, resp, accessed, started>>
vars     == <<neg, col, par, fs, now, cache, lock, pc, request, idx, meta, entry, resp, accessed,
             started>>

\* Option: None, or Some(x) holding x as its only element
None == <<>>
Some(x) == <<x>>

(***************************************************************************)
(* Bounds                                                                  *)
(***************************************************************************)
MaxHdrLen == 4
MaxUriLen == 3
MaxTick == 2
MaxRangeLen == 3
MaxTreeUriLen == 2

(***************************************************************************)
(* Sequence helpers                                                        *)
(***************************************************************************)
SeqsUpTo(S, n) == UNION {[1..k -> S] : k \in 0..n}

IndexOf(s, x) ==
    IF \E i \in 1..Len(s) : s[i] = x
    THEN CHOOSE i \in 1..Len(s) : s[i] = x /\ \A j \in 1..(i - 1) : s[j] # x
    ELSE 0

RECURSIVE Split(_, _)
Split(s, sep) ==
    LET i == IndexOf(s, sep)
    IN  IF i = 0 THEN <<s>>
        ELSE <<SubSeq(s, 1, i - 1)>> \o Split(SubSeq(s, i + 1, Len(s)), sep)

RECURSIVE TrimStart(_, _)
TrimStart(s, ch) ==
    IF s # <<>> /\ Head(s) = ch THEN TrimStart(Tail(s), ch) ELSE s

RECURSIVE TrimEnd(_, _)
TrimEnd(s, ch) ==
    IF s # <<>> /\ s[Len(s)] = ch THEN TrimEnd(SubSeq(s, 1, Len(s) - 1), ch) ELSE s

\* str::trim, the only white space of the model being " "
Trim(s) == TrimEnd(TrimStart(s, " "), " ")

RECURSIVE Concat(_)
Concat(s) == IF s = <<>> THEN "" ELSE Head(s) \o Concat(Tail(s))

(***************************************************************************)
(* encoding.rs                                                             *)
(***************************************************************************)
ENCODING_BR == "br"
ENCODING_BR_EXTENSION == ".br"
ENCODING_GZIP == "gzip"
ENCODING_GZIP_EXTENSION == ".gz"
ENCODING_ZSTD == "zstd"
ENCODING_ZSTD_EXTENSION == ".zst"

Encoding == {"Brotli", "Gzip", "Zstandard"}

to_header_value(e) ==
    CASE e = "Brotli" -> ENCODING_BR
      [] e = "Gzip" -> ENCODING_GZIP
      [] e = "Zstandard" -> ENCODING_ZSTD

get_extension(e) ==
    CASE e = "Brotli" -> ENCODING_BR_EXTENSION
      [] e = "Gzip" -> ENCODING_GZIP_EXTENSION
      [] e = "Zstandard" -> ENCODING_ZSTD_EXTENSION

\* The lexemes of an Accept-Encoding value.  "0x80" stands for a byte that is
\* legal in a header value and is not visible ASCII.
HdrLexemes == {"br", "BR", "gzip", "zstd", "deflate", "q=0", ",", ";", " ", "0x80"}

\* ASCII lower case of a word
AsciiLower(w) == IF w = "BR" THEN "br" ELSE w

\* str::eq_ignore_ascii_case of a lexeme sequence and a token: no token is the
\* concatenation of two or more lexemes, so only a single word can be equal.
eq_ignore_ascii_case(s, name) == Len(s) = 1 /\ AsciiLower(s[1]) = name

\* HeaderValue::to_str: fails unless every byte is visible ASCII
to_str_ok(h) == \A i \in 1..Len(h) : h[i] # "0x80"

\* str::split_once(';'): the part before the first ';', None when there is none
split_once_semi(e) ==
    LET i == IndexOf(e, ";") IN IF i = 0 THEN None ELSE Some(SubSeq(e, 1, i - 1))

check_support_caseSensitive(encodings, encoding_name) ==
    \E k \in 1..Len(encodings) :
        LET e == encodings[k]
            before == split_once_semi(e)
            s == IF before # None THEN Trim(before[1]) ELSE e
        IN  Len(s) = 1 /\ s[1] = encoding_name

check_support(encodings, encoding_name) ==
    \E k \in 1..Len(encodings) :
        LET e == encodings[k]
            before == split_once_semi(e)
        IN  eq_ignore_ascii_case(IF before # None THEN Trim(before[1]) ELSE e, encoding_name)

NoSupport == [has_brotli |-> FALSE, has_gzip |-> FALSE, has_zstandard |-> FALSE]

\* incoming_headers.get(ACCEPT_ENCODING): None, or the value as lexemes
from_header_map(h) ==
    IF h = None \/ ~to_str_ok(h[1]) THEN NoSupport
    ELSE LET parts == Split(h[1], ",")
             encodings == [k \in 1..Len(parts) |-> Trim(parts[k])]
         IN  [has_brotli |-> check_support(encodings, ENCODING_BR),
              has_gzip |-> check_support(encodings, ENCODING_GZIP),
              has_zstandard |-> check_support(encodings, ENCODING_ZSTD)]

supported_encodings_gzipFirst(s) ==
    LET b == s.has_brotli
        g == s.has_gzip
        z == s.has_zstandard
    IN  CASE b /\ g /\ z -> <<"Brotli", "Zstandard", "Gzip">>
          [] b /\ g /\ ~z -> <<"Gzip", "Brotli">>
          [] b /\ ~g /\ z -> <<"Brotli", "Zstandard">>
          [] ~b /\ g /\ z -> <<"Zstandard", "Gzip">>
          [] b /\ ~g /\ ~z -> <<"Brotli">>
          [] ~b /\ ~g /\ z -> <<"Zstandard">>
          [] ~b /\ g /\ ~z -> <<"Gzip">>
          [] ~b /\ ~g /\ ~z -> <<>>

supported_encodings(s) ==
    LET b == s.has_brotli
        g == s.has_gzip
        z == s.has_zstandard
    IN  CASE b /\ g /\ z -> <<"Brotli", "Zstandard", "Gzip">>
          [] b /\ g /\ ~z -> <<"Brotli", "Gzip">>
          [] b /\ ~g /\ z -> <<"Brotli", "Zstandard">>
          [] ~b /\ g /\ z -> <<"Zstandard", "Gzip">>
          [] b /\ ~g /\ ~z -> <<"Brotli">>
          [] ~b /\ ~g /\ z -> <<"Zstandard">>
          [] ~b /\ g /\ ~z -> <<"Gzip">>
          [] ~b /\ ~g /\ ~z -> <<>>

(***************************************************************************)
(* Paths: std::path and the first lines of root (app.rs)                   *)
(***************************************************************************)
\* The lexemes of a request path.  "%2E" is an escaped ".", "%2F" an escaped
\* "/", and "%FF" an escaped byte that is not UTF-8.
UriLexemes == {"/", ".", "app.js", "%2E", "%2F", "%FF"}

percent_decode_lexeme(x) ==
    CASE x = "%2E" -> "."
      [] x = "%2F" -> "/"
      [] OTHER -> x

\* percent_decode_str(path).decode_utf8(): None when the bytes are not UTF-8
decode_utf8(p) ==
    IF \E i \in 1..Len(p) : p[i] = "%FF" THEN None
    ELSE Some([i \in 1..Len(p) |-> percent_decode_lexeme(p[i])])

\* Path::components of a path given as lexemes: a leading "/" is the root
\* anchor, ".." is ParentDir, "." is CurDir only at the very start of a relative
\* path and is skipped elsewhere, empty segments are skipped.
RECURSIVE SegmentComponents(_, _)
SegmentComponents(segs, first) ==
    IF segs = <<>> THEN <<>>
    ELSE LET s == Head(segs)
             rest == SegmentComponents(Tail(segs), FALSE)
         IN  CASE s = <<>> -> rest
               [] s = <<".", ".">> -> <<[kind |-> "ParentDir", name |-> ".."]>> \o rest
               [] s = <<".">> -> IF first THEN <<[kind |-> "CurDir", name |-> "."]>> \o rest
                                 ELSE rest
               [] OTHER -> <<[kind |-> "Normal", name |-> Concat(s)]>> \o rest

components(p) ==
    IF p # <<>> /\ Head(p) = "/"
    THEN <<[kind |-> "RootDir", name |-> "/"]>> \o SegmentComponents(Split(Tail(p), "/"), FALSE)
    ELSE SegmentComponents(Split(p, "/"), TRUE)

is_valid_parentOnly(p) ==
    \A i \in 1..Len(components(p)) : components(p)[i].kind # "ParentDir"

\* app.rs 203-205
is_valid(p) ==
    \A i \in 1..Len(components(p)) : components(p)[i].kind = "Normal"

\* A PathBuf is its text, as lexemes.
base_dir == <<"root">>
DEFAULT_FALLBACK_PATH == "index.html"

\* Path::join: an absolute path replaces the directory, a relative one is
\* put under it
join(dir, p) == IF p # <<>> /\ Head(p) = "/" THEN p ELSE dir \o <<"/">> \o p

\* ServerState::from_config, no fallback path configured
fallback_path == join(base_dir, <<DEFAULT_FALLBACK_PATH>>)

\* paths.rs append_to_path: the suffix is pushed onto the text of the path
append_to_path(path, suffix) == path \o <<suffix>>

PathToTry(path, encoding, cache_control) ==
    [path |-> path, encoding |-> encoding, cache_control |-> cache_control]

content_path_logical(c) == c.path

\* paths.rs 30-36
content_path(c) ==
    IF c.encoding # None THEN append_to_path(c.path, get_extension(c.encoding[1])) ELSE c.path

collect_paths_to_try_fallbackFirst(encs, uri, initial_path) ==
    LET path == join(base_dir, initial_path)
        exact == IF uri # <<"/">>
                 THEN [i \in 1..Len(encs) |-> PathToTry(path, Some(encs[i]), None)]
                        \o <<PathToTry(path, None, None)>>
                 ELSE <<>>
    IN  [i \in 1..Len(encs) |-> PathToTry(fallback_path, Some(encs[i]), Some("no-cache"))]
        \o <<PathToTry(fallback_path, None, None)>>
        \o exact

\* paths.rs 49-92; uri is the undecoded request path
collect_paths_to_try(encs, uri, initial_path) ==
    LET path == join(base_dir, initial_path)
        exact == IF uri # <<"/">>
                 THEN [i \in 1..Len(encs) |-> PathToTry(path, Some(encs[i]), None)]
                        \o <<PathToTry(path, None, None)>>
                 ELSE <<>>
    IN  exact
        \o [i \in 1..Len(encs) |-> PathToTry(fallback_path, Some(encs[i]), Some("no-cache"))]
        \o <<PathToTry(fallback_path, None, None)>>

RejectStatus_decodeOnly(uri) ==
    IF decode_utf8(TrimStart(uri, "/")) = None THEN Some(404) ELSE None

\* app.rs 193-209: the status root rejects the request path with, or None
RejectStatus(uri) ==
    LET decoded == decode_utf8(TrimStart(uri, "/"))
    IN  IF decoded = None THEN Some(404)
        ELSE IF ~is_valid(decoded[1]) THEN Some(400)
        ELSE None

\* app.rs 211-217, for a request path root does not reject
Candidates(support, uri) ==
    collect_paths_to_try(supported_encodings(support), uri,
                         decode_utf8(TrimStart(uri, "/"))[1])

(***************************************************************************)
(* Negotiation of one header and candidate collection for one URI, step by *)
(* step, over all inputs within the bounds                                 *)
(***************************************************************************)
HeaderInputs == {None} \cup {Some(h) : h \in SeqsUpTo(HdrLexemes, MaxHdrLen)}
UriInputs == {<<"/">> \o s : s \in SeqsUpTo(UriLexemes, MaxUriLen)}
Supports == [has_brotli : BOOLEAN, has_gzip : BOOLEAN, has_zstandard : BOOLEAN]

NegIdle == [pc |-> "off", hdr |-> None, support |-> NoSupport, encs |-> <<>>]
ColIdle == [pc |-> "off", support |-> NoSupport, uri |-> <<"/">>, encs |-> <<>>,
            status |-> None, out |-> <<>>]

\* ClientEncodingSupport::from_request_parts
NegFromHeaderMap ==
    /\ neg.pc = "header"
    /\ neg' = [neg EXCEPT !.pc = "support", !.support = from_header_map(neg.hdr)]
    /\ UNCHANGED <<col, par, srvVars>>

NegSupportedEncodings ==
    /\ neg.pc = "support"
    /\ neg' = [neg EXCEPT !.pc = "done", !.encs = supported_encodings(neg.support)]
    /\ UNCHANGED <<col, par, srvVars>>

ColSupportedEncodings ==
    /\ col.pc = "encodings"
    /\ col' = [col EXCEPT !.pc = "validate", !.encs = supported_encodings(col.support)]
    /\ UNCHANGED <<neg, par, srvVars>>

\* root, app.rs 193-209
ColValidate ==
    /\ col.pc = "validate"
    /\ col' = [col EXCEPT !.pc = IF RejectStatus(col.uri) = None THEN "collect" ELSE "rejected",
                          !.status = RejectStatus(col.uri)]
    /\ UNCHANGED <<neg, par, srvVars>>

\* root, app.rs 211-217
ColCollect ==
    /\ col.pc = "collect"
    /\ col' = [col EXCEPT !.pc = "done",
                          !.out = collect_paths_to_try(col.encs, col.uri,
                                        decode_utf8(TrimStart(col.uri, "/"))[1])]
    /\ UNCHANGED <<neg, par, srvVars>>

(***************************************************************************)
(* Files, time and the cache (file_cache.rs)                               *)
(***************************************************************************)
FILE_SYSTEM_THRESHOLD == 65536

\* Ticks in a second: file times have ticks, an HttpDate has whole seconds.
TicksPerSec == 2

\* HttpDate::from(SystemTime): the seconds since the epoch, fractions dropped
HttpDate(t) == t \div TicksPerSec

\* The file or cache slot a path names: Path equality and the filesystem both
\* go by components.
Key(p) == [i \in 1..Len(components(p)) |-> components(p)[i].name]

\* A path whose text ends in "/" or "/." names a directory only.
DirOnly(p) ==
    \/ p[Len(p)] = "/"
    \/ Len(p) > 1 /\ p[Len(p)] = "." /\ p[Len(p) - 1] = "/"

Bytes(img, len) == [img |-> img, len |-> len]

\* readable: whether the server's user may open the file
RegularFile(img, len, mtime) ==
    [kind |-> "file", img |-> img, len |-> len, mtime |-> mtime, readable |-> TRUE]
Directory == [kind |-> "dir", img |-> 0, len |-> 4096, mtime |-> 0, readable |-> TRUE]

key_root == <<"root">>
key_app == <<"root", "app.js">>
key_app_br == <<"root", "app.js.br">>
key_app_gz == <<"root", "app.js.gz">>
key_index == <<"root", "index.html">>
key_index_br == <<"root", "index.html.br">>

\* The served tree at start: a large asset with two small compressed
\* siblings, and the fallback document with a Brotli sibling.
InitialFiles ==
    (key_root :> Directory)
    @@ (key_app :> RegularFile(1, 65537, 0))
    @@ (key_app_br :> RegularFile(2, 500, 0))
    @@ (key_app_gz :> RegularFile(3, 600, 0))
    @@ (key_index :> RegularFile(4, 700, 0))
    @@ (key_index_br :> RegularFile(5, 500, 0))

\* What the environment writes and removes
WrittenContents == {Bytes(6, 500), Bytes(7, 65537)}
WritableKeys == {key_app_br}
RemovableKeys == {key_app_br, key_app}

\* tokio::fs::metadata on a path: None when it fails
Stat(p) ==
    IF Key(p) \notin DOMAIN fs THEN None
    ELSE IF DirOnly(p) /\ fs[Key(p)].kind # "dir" THEN None
    ELSE Some(fs[Key(p)])

\* File::open on a path: None when it fails
Open(p) == IF Stat(p) # None /\ ~Stat(p)[1].readable THEN None ELSE Stat(p)

\* mime_guess::from_path(..).first_raw(), by the extension of the last component
MimeOf(p) ==
    LET k == Key(p)
        name == IF k = <<>> THEN "" ELSE k[Len(k)]
    IN  CASE name = "app.js" -> "text/javascript"
          [] name = "index.html" -> "text/html"
          [] OTHER -> "application/octet-stream"

NotFound == [kind |-> "NotFound"]
\* No entry in hand yet
NoEntry == [kind |-> "NoEntry"]
Cached(bytes) == [kind |-> "Cached", bytes |-> bytes]
File == [kind |-> "File"]
Found(content, content_type, content_length, last_modified) ==
    [kind |-> "Found", content |-> content, content_type |-> content_type,
     content_length |-> content_length, last_modified |-> last_modified]

\* FileCache::get, under the read lock
CacheLookup(k) == IF k \in DOMAIN cache THEN Some(cache[k]) ELSE None

CacheInsert_dropsEntry(k, e) == cache

CacheInsert_evictsOthers(k, e) == [x \in {k} |-> e]

\* HashMap::insert in FileCache::set, under the write lock
CacheInsert(k, e) == [x \in DOMAIN cache \cup {k} |-> IF x = k THEN e ELSE cache[x]]

(***************************************************************************)
(* Requests and responses (app.rs)                                         *)
(***************************************************************************)
Slots == {1, 2}

Request(method, uri, accept_encoding, if_modified_since, range) ==
    [method |-> method, uri |-> uri, accept_encoding |-> accept_encoding,
     if_modified_since |-> if_modified_since, range |-> range]

ByteRange(first, last) == [first |-> first, last |-> last]

uri_app == <<"/", "app.js">>
\* A route with no asset under the root
uri_nope == <<"/", "nope">>

\* The requests clients send.  If-Modified-Since is in whole seconds.
Requests ==
    { Request("GET", uri_app, None, None, None),
      Request("GET", uri_app, Some(<<"br", ",", " ", "gzip">>), None, None),
      Request("GET", uri_app, Some(<<"br">>), Some(0), None),
      Request("GET", uri_app, None, Some(1), None),
      Request("HEAD", uri_app, Some(<<"gzip", ";", "q=0">>), None, None),
      Request("GET", uri_app, Some(<<"BR">>), None, Some(ByteRange(0, 99))),
      Request("GET", uri_app, Some(<<"gzip">>), None, Some(ByteRange(1000, 2000))),
      Request("GET", <<"/">>, Some(<<"br">>), None, None),
      Request("GET", <<"/", "/">>, None, None, None),
      Request("GET", <<"/", ".", ".", "/", "app.js">>, None, None, None),
      Request("GET", <<"/", "%2E", "%2E", "/", "app.js">>, Some(<<"br">>), None, None),
      Request("GET", <<"/", "%2F", "app.js">>, None, None, None),
      Request("GET", <<"/", ".", "/", "app.js">>, None, None, None),
      Request("GET", <<"/", "%FF">>, Some(<<"br">>), None, None),
      Request("GET", uri_nope, Some(<<"br">>), None, None) }

\* The requests that run while another request is being handled
RacingRequests ==
    { Request("GET", uri_app, Some(<<"br">>), None, None) }

NoRequest == Request("GET", <<"/">>, None, None, None)

NoHeaders ==
    [content_type |-> None, last_modified |-> None, content_length |-> None,
     content_encoding |-> None, cache_control |-> None, content_range |-> None]

Response(status, headers, body) == [status |-> status, headers |-> headers, body |-> body]
\* status 0: no response yet
NoResponse == Response(0, NoHeaders, None)
NoMeta == [len |-> 0, mtime |-> 0]

\* The candidates of the request in slot r, and the one being tried
CandidatesOf(r) == Candidates(from_header_map(request[r].accept_encoding), request[r].uri)
Candidate(r) == CandidatesOf(r)[idx[r]]

is_modified_notStrict(if_modified_since, last_modified) ==
    if_modified_since[1] <= last_modified

\* IfModifiedSince::is_modified
is_modified(if_modified_since, last_modified) == if_modified_since[1] < last_modified

\* serve_file, app.rs 149-183
ServeFileResponse(e, if_modified_since) ==
    IF e.kind = "NotFound" THEN [kind |-> "NotFound"]
    ELSE LET headers == [NoHeaders EXCEPT !.content_type = Some(e.content_type),
                                         !.last_modified = Some(e.last_modified)]
         IN  IF if_modified_since # None /\ ~is_modified(if_modified_since, e.last_modified)
             THEN [kind |-> "NotModified",
                   headers |-> [headers EXCEPT !.content_length = Some(0)]]
             ELSE [kind |-> "Found",
                   headers |-> [headers EXCEPT !.content_length = Some(e.content_length)],
                   content |-> e.content]

FoundHeaders_alwaysNoCache(headers, c) ==
    [headers EXCEPT
        !.content_encoding = IF c.encoding # None THEN Some(to_header_value(c.encoding[1]))
                            ELSE None,
        !.cache_control = Some("no-cache")]

FoundHeaders_noCacheControl(headers, c) ==
    [headers EXCEPT
        !.content_encoding = IF c.encoding # None THEN Some(to_header_value(c.encoding[1]))
                            ELSE None]

\* root, app.rs 227-233
FoundHeaders(headers, c) ==
    [headers EXCEPT
        !.content_encoding = IF c.encoding # None THEN Some(to_header_value(c.encoding[1]))
                            ELSE None,
        !.cache_control = c.cache_control]

TryNext_sameCandidate(r) ==
    /\ idx' = idx
    /\ pc' = [pc EXCEPT ![r] = "metadata"]
    /\ resp' = resp

\* root, app.rs 265-271: try the next path, 404 after the last
TryNext(r) ==
    IF idx[r] < Len(CandidatesOf(r))
    THEN /\ idx' = [idx EXCEPT ![r] = idx[r] + 1]
         /\ pc' = [pc EXCEPT ![r] = "metadata"]
         /\ resp' = resp
    ELSE /\ idx' = idx
         /\ pc' = [pc EXCEPT ![r] = "done"]
         /\ resp' = [resp EXCEPT ![r] = Response(404, NoHeaders, None)]

\* The rest of serve_file and of root's loop body once the entry e is known:
\* no await up to the response, but for the File::open of a streamed body.
Answer(r, e) ==
    LET sfr == ServeFileResponse(e, request[r].if_modified_since)
    IN  IF sfr.kind = "NotFound" THEN TryNext(r)
        ELSE /\ idx' = idx
             /\ IF sfr.kind = "NotModified"
                THEN /\ resp' = [resp EXCEPT ![r] = Response(304, sfr.headers, None)]
                     /\ pc' = [pc EXCEPT ![r] = "done"]
                ELSE LET headers == FoundHeaders(sfr.headers, Candidate(r))
                     IN  IF request[r].method = "HEAD"
                         THEN /\ resp' = [resp EXCEPT ![r] = Response(200, headers, None)]
                              /\ pc' = [pc EXCEPT ![r] = "done"]
                         ELSE IF sfr.content.kind = "Cached"
                         THEN /\ resp' = [resp EXCEPT ![r] =
                                            Response(200, headers, Some(sfr.content.bytes))]
                              /\ pc' = [pc EXCEPT ![r] = "done"]
                         ELSE /\ resp' = [resp EXCEPT ![r] = Response(0, headers, None)]
                              /\ pc' = [pc EXCEPT ![r] = "body_open"]

\* root, app.rs 186-217
StartRequest(r, q) ==
    /\ pc[r] \in {"idle", "done"}
    /\ request' = [request EXCEPT ![r] = q]
    /\ accessed' = [accessed EXCEPT ![r] = {}]
    /\ started' = [started EXCEPT ![r] = now]
    /\ meta' = [meta EXCEPT ![r] = NoMeta]
    /\ entry' = [entry EXCEPT ![r] = NoEntry]
    /\ idx' = [idx EXCEPT ![r] = 1]
    /\ IF RejectStatus(q.uri) # None
       THEN /\ resp' = [resp EXCEPT ![r] = Response(RejectStatus(q.uri)[1], NoHeaders, None)]
            /\ pc' = [pc EXCEPT ![r] = "done"]
       ELSE /\ resp' = [resp EXCEPT ![r] = NoResponse]
            /\ pc' = [pc EXCEPT ![r] = "metadata"]
    /\ UNCHANGED <<fs, now, cache, lock, pureVars>>

Metadata_thenCache(r) ==
    /\ pc[r] = "metadata"
    /\ LET p == content_path(Candidate(r))
           st == Stat(p)
       IN  /\ accessed' = [accessed EXCEPT ![r] = @ \cup {Key(p)}]
           /\ entry' = [entry EXCEPT ![r] = NoEntry]
           /\ meta' = [meta EXCEPT ![r] =
                         IF st = None THEN NoMeta
                         ELSE [len |-> st[1].len, mtime |-> st[1].mtime]]
           /\ pc' = [pc EXCEPT ![r] = "get"]
           /\ UNCHANGED <<idx, resp>>
    /\ UNCHANGED <<fs, now, cache, lock, request, started, pureVars>>

\* serve_file, app.rs 110-115
Metadata(r) ==
    /\ pc[r] = "metadata"
    /\ LET p == content_path(Candidate(r))
           st == Stat(p)
       IN  /\ accessed' = [accessed EXCEPT ![r] = @ \cup {Key(p)}]
           /\ entry' = [entry EXCEPT ![r] = NoEntry]
           /\ IF st = None
              THEN /\ meta' = [meta EXCEPT ![r] = NoMeta]
                   /\ TryNext(r)
              ELSE /\ meta' = [meta EXCEPT ![r] = [len |-> st[1].len, mtime |-> st[1].mtime]]
                   /\ pc' = [pc EXCEPT ![r] = "get"]
                   /\ UNCHANGED <<idx, resp>>
    /\ UNCHANGED <<fs, now, cache, lock, request, started, pureVars>>

\* serve_file, app.rs 126-137: a Found entry older than the file is reloaded
Stale(e, m) == e.kind = "Found" /\ HttpDate(m.mtime) > e.last_modified

\* FileCache::get: self.files.read().await
ReadLock(r) ==
    /\ pc[r] = "get"
    /\ lock.writer = None
    /\ lock' = [lock EXCEPT !.readers = @ \cup {r}]
    /\ pc' = [pc EXCEPT ![r] = "get_locked"]
    /\ UNCHANGED <<fs, now, cache, request, idx, meta, entry, resp, accessed, started, pureVars>>

\* FileCache::get under the read lock, then serve_file, app.rs 117-147
CacheGet(r) ==
    /\ pc[r] = "get_locked"
    /\ lock' = [lock EXCEPT !.readers = @ \ {r}]
    /\ LET k == Key(content_path(Candidate(r)))
           e == CacheLookup(k)
       IN  /\ accessed' = [accessed EXCEPT ![r] = @ \cup {k}]
           /\ IF e # None /\ ~Stale(e[1], meta[r])
              THEN /\ entry' = [entry EXCEPT ![r] = e[1]]
                   /\ Answer(r, e[1])
              ELSE /\ entry' = [entry EXCEPT ![r] = NoEntry]
                   /\ pc' = [pc EXCEPT ![r] = "read_file"]
                   /\ UNCHANGED <<idx, resp>>
    /\ UNCHANGED <<fs, now, cache, request, meta, started, pureVars>>

\* FileCache::read_file up to its call of set, file_cache.rs 57-106.  The open
\* and the read are one step: a file removed in between is still read through
\* the open handle, and one rewritten in between is read as rewritten.
ReadFile(r) ==
    /\ pc[r] = "read_file"
    /\ LET c == Candidate(r)
           p == content_path(c)
           st == Open(p)
           last_modified == HttpDate(meta[r].mtime)
       IN  /\ accessed' = [accessed EXCEPT ![r] = @ \cup {Key(p)}]
           /\ IF st = None
              THEN /\ entry' = [entry EXCEPT ![r] = NotFound]
                   /\ pc' = [pc EXCEPT ![r] = "set"]
                   /\ UNCHANGED <<idx, resp>>
              ELSE IF meta[r].len > FILE_SYSTEM_THRESHOLD
              THEN /\ entry' = [entry EXCEPT ![r] =
                                  Found(File, MimeOf(c.path), meta[r].len, last_modified)]
                   /\ pc' = [pc EXCEPT ![r] = "set"]
                   /\ UNCHANGED <<idx, resp>>
              ELSE IF st[1].kind = "dir"
              THEN /\ entry' = [entry EXCEPT ![r] = NotFound]
                   /\ Answer(r, NotFound)
              ELSE /\ entry' = [entry EXCEPT ![r] =
                                  Found(Cached(Bytes(st[1].img, st[1].len)), MimeOf(c.path),
                                        meta[r].len, last_modified)]
                   /\ pc' = [pc EXCEPT ![r] = "set"]
                   /\ UNCHANGED <<idx, resp>>
    /\ UNCHANGED <<fs, now, cache, lock, request, meta, started, pureVars>>

\* FileCache::set: self.files.write().await
WriteLock(r) ==
    /\ pc[r] = "set"
    /\ lock.writer = None
    /\ lock.readers = {}
    /\ lock' = [lock EXCEPT !.writer = Some(r)]
    /\ pc' = [pc EXCEPT ![r] = "set_locked"]
    /\ UNCHANGED <<fs, now, cache, request, idx, meta, entry, resp, accessed, started, pureVars>>

CacheSet_keepsLock(r) ==
    /\ pc[r] = "set_locked"
    /\ lock' = lock
    /\ LET k == Key(content_path(Candidate(r)))
       IN  /\ cache' = CacheInsert(k, entry[r])
           /\ accessed' = [accessed EXCEPT ![r] = @ \cup {k}]
    /\ Answer(r, entry[r])
    /\ UNCHANGED <<fs, now, request, meta, entry, started, pureVars>>

\* FileCache::set under the write lock, file_cache.rs 46-48, then the rest of
\* serve_file
CacheSet(r) ==
    /\ pc[r] = "set_locked"
    /\ lock' = [lock EXCEPT !.writer = None]
    /\ LET k == Key(content_path(Candidate(r)))
       IN  /\ cache' = CacheInsert(k, entry[r])
           /\ accessed' = [accessed EXCEPT ![r] = @ \cup {k}]
    /\ Answer(r, entry[r])
    /\ UNCHANGED <<fs, now, request, meta, entry, started, pureVars>>

\* root, app.rs 244-256: the body of a FileCacheEntryContent::File entry
BodyOpen(r) ==
    /\ pc[r] = "body_open"
    /\ LET p == content_path(Candidate(r))
           st == Open(p)
       IN  /\ accessed' = [accessed EXCEPT ![r] = @ \cup {Key(p)}]
           /\ resp' = [resp EXCEPT ![r] =
                         IF st = None THEN Response(404, NoHeaders, None)
                         ELSE Response(200, resp[r].headers, Some(Bytes(st[1].img, st[1].len)))]
    /\ pc' = [pc EXCEPT ![r] = "done"]
    /\ UNCHANGED <<fs, now, cache, lock, request, idx, meta, entry, started, pureVars>>

(***************************************************************************)
(* partial.rs: the response to a Range for a Found entry                   *)
(***************************************************************************)
\* std::ops::Bound
Included(v) == [kind |-> "Included", v |-> v]
Excluded(v) == [kind |-> "Excluded", v |-> v]
Unbounded == [kind |-> "Unbounded", v |-> 0]

saturating_sub(a, b) == IF a > b THEN a - b ELSE 0

Ok(start, end) == [kind |-> "Ok", start |-> start, end |-> end]
\* (StatusCode::RANGE_NOT_SATISFIABLE, "Requested Range Not Satisfiable")
Err ==
    [kind |-> "Err",
     response |-> Response(416, [NoHeaders EXCEPT
                                    !.content_type = Some("text/plain; charset=utf-8")],
                           Some([text |-> "Requested Range Not Satisfiable"]))]

process_range_endInclusive(content_length, range) ==
    IF range = <<>> THEN Err
    ELSE LET first == range[1]
             start == CASE first[1].kind = "Included" -> first[1].v
                        [] first[1].kind = "Excluded" -> first[1].v + 1
                        [] first[1].kind = "Unbounded" -> 0
             end == CASE first[2].kind = "Included" -> first[2].v
                      [] first[2].kind = "Excluded" -> saturating_sub(first[2].v, 1)
                      [] first[2].kind = "Unbounded" -> saturating_sub(content_length, 1)
         IN  IF start > content_length THEN Err
             ELSE IF end < start THEN Err
             ELSE IF end > content_length THEN Err
             ELSE Ok(start, end)

\* partial.rs 38-78.  range is what range.satisfiable_ranges(content_length)
\* yields, a sequence of pairs of bounds, of which next() takes the first.
process_range(content_length, range) ==
    IF range = <<>> THEN Err
    ELSE LET first == range[1]
             start == CASE first[1].kind = "Included" -> first[1].v
                        [] first[1].kind = "Excluded" -> first[1].v + 1
                        [] first[1].kind = "Unbounded" -> 0
             end == CASE first[2].kind = "Included" -> first[2].v
                      [] first[2].kind = "Excluded" -> saturating_sub(first[2].v, 1)
                      [] first[2].kind = "Unbounded" -> saturating_sub(content_length, 1)
         IN  IF start > content_length THEN Err
             ELSE IF end < start THEN Err
             ELSE IF end >= content_length THEN Err
             ELSE Ok(start, end)

\* format!("bytes {start}-{end}/{content_length}"), kept as its three numbers
content_range_range(start, end, content_length) == <<start, end, content_length>>

apply_content_range_headers(headers, start, end, content_length) ==
    [headers EXCEPT
        !.content_type = Some("application/octet-stream"),
        !.content_range = Some(content_range_range(start, end, content_length)),
        !.content_length = Some(end - start + 1)]

\* content[start..=end]
Slice(content, start, end) == [img |-> content.img, first |-> start, last |-> end]

serve_partial_cached_response(headers, content, content_length, range) ==
    LET r == process_range(content_length, range)
    IN  IF r.kind = "Ok"
        THEN Response(206, apply_content_range_headers(headers, r.start, r.end, content_length),
                      Some(Slice(content, r.start, r.end)))
        ELSE r.response

\* file.seek(SeekFrom::Start(start)), then file.take(end - start + 1), of a
\* file that holds content_length bytes
serve_partial_file_response(headers, file, content_length, range) ==
    LET r == process_range(content_length, range)
    IN  IF r.kind = "Ok"
        THEN Response(206, apply_content_range_headers(headers, r.start, r.end, content_length),
                      Some(Slice(file, r.start, r.end)))
        ELSE r.response

\* The inputs: a Found entry held in memory, of any length within the bound,
\* with the headers serve_file builds for it, and what the Range yields: no
\* range, any one range, or any range followed by another one.
BoundInputs ==
    {Unbounded} \cup {Included(v) : v \in 0..(MaxRangeLen + 1)}
                \cup {Excluded(v) : v \in 0..(MaxRangeLen + 1)}
RangeInputs ==
    {<<>>} \cup {<<<<a, b>>>> : a \in BoundInputs, b \in BoundInputs}
           \cup {<<<<a, b>>, o>> : a \in BoundInputs, b \in BoundInputs,
                                   o \in {<<Included(0), Included(0)>>,
                                          <<Unbounded, Unbounded>>}}
ContentTypeInputs == {"text/javascript", "application/octet-stream"}

ParIdle ==
    [pc |-> "off", content_length |-> 0, content_type |-> "application/octet-stream",
     range |-> <<>>, result |-> Err, resp |-> NoResponse]

\* The entry the partial response is for
ParEntry == Found(Cached(Bytes(1, par.content_length)), par.content_type,
                  par.content_length, 0)

ParProcessRange ==
    /\ par.pc = "range"
    /\ par' = [par EXCEPT !.pc = "respond",
                          !.result = process_range(par.content_length, par.range)]
    /\ UNCHANGED <<neg, col, srvVars>>

ParServeCached ==
    /\ par.pc = "respond"
    /\ par' = [par EXCEPT
                 !.pc = "done",
                 !.resp = serve_partial_cached_response(
                              ServeFileResponse(ParEntry, None).headers,
                              ParEntry.content.bytes, par.content_length, par.range)]
    /\ UNCHANGED <<neg, col, srvVars>>

ParServeFile ==
    /\ par.pc = "respond"
    /\ par' = [par EXCEPT
                 !.pc = "done_file",
                 !.resp = serve_partial_file_response(
                              ServeFileResponse(ParEntry, None).headers,
                              Bytes(1, par.content_length), par.content_length, par.range)]
    /\ UNCHANGED <<neg, col, srvVars>>

(***************************************************************************)
(* The environment: files are written and removed while requests run       *)
(***************************************************************************)
WriteFile(k, b) ==
    /\ now < MaxTick
    /\ now' = now + 1
    /\ fs' = [x \in DOMAIN fs \cup {k} |->
                IF x = k THEN RegularFile(b.img, b.len, now + 1) ELSE fs[x]]
    /\ UNCHANGED <<cache, lock, pc, request, idx, meta, entry, resp, accessed, started,
                   pureVars>>

RemoveFile(k) ==
    /\ now < MaxTick
    /\ k \in DOMAIN fs
    /\ now' = now + 1
    /\ fs' = [x \in DOMAIN fs \ {k} |-> fs[x]]
    /\ UNCHANGED <<cache, lock, pc, request, idx, meta, entry, resp, accessed, started,
                   pureVars>>

\* The file loses its read permission: its content and times stay
MakeUnreadable(k) ==
    /\ now < MaxTick
    /\ k \in DOMAIN fs
    /\ fs[k].readable
    /\ now' = now + 1
    /\ fs' = [fs EXCEPT ![k].readable = FALSE]
    /\ UNCHANGED <<cache, lock, pc, request, idx, meta, entry, resp, accessed, started,
                   pureVars>>

(***************************************************************************)
(* Specifications                                                          *)
(***************************************************************************)
\* ServerState::from_config: an empty cache over the served tree
InitServer ==
    /\ fs = InitialFiles
    /\ now = 0
    /\ cache = <<>>
    /\ lock = [writer |-> None, readers |-> {}]
    /\ pc = [r \in Slots |-> "idle"]
    /\ request = [r \in Slots |-> NoRequest]
    /\ idx = [r \in Slots |-> 1]
    /\ meta = [r \in Slots |-> NoMeta]
    /\ entry = [r \in Slots |-> NoEntry]
    /\ resp = [r \in Slots |-> NoResponse]
    /\ accessed = [r \in Slots |-> {}]
    /\ started = [r \in Slots |-> 0]

Init ==
    /\ InitServer
    /\ neg = NegIdle
    /\ col = ColIdle
    /\ par = ParIdle

\* One request at a time, of any kind, while the files change
Next ==
    \/ \E q \in Requests : StartRequest(1, q)
    \/ Metadata(1)
    \/ ReadLock(1)
    \/ CacheGet(1)
    \/ ReadFile(1)
    \/ WriteLock(1)
    \/ CacheSet(1)
    \/ BodyOpen(1)
    \/ \E k \in WritableKeys, b \in WrittenContents : WriteFile(k, b)
    \/ \E k \in RemovableKeys : RemoveFile(k)

Spec == Init /\ [][Next]_vars

\* Two requests at a time while the Brotli sibling they ask for changes
NextRace ==
    \/ \E r \in Slots, q \in RacingRequests : StartRequest(r, q)
    \/ \E r \in Slots : Metadata(r)
    \/ \E r \in Slots : ReadLock(r)
    \/ \E r \in Slots : CacheGet(r)
    \/ \E r \in Slots : ReadFile(r)
    \/ \E r \in Slots : WriteLock(r)
    \/ \E r \in Slots : CacheSet(r)
    \/ \E r \in Slots : BodyOpen(r)
    \/ WriteFile(key_app_br, Bytes(6, 500))
    \/ RemoveFile(key_app_br)

SpecRace == Init /\ [][NextRace]_vars

\* The requests sent once with GET and once with HEAD
TwinRequests ==
    { Request("GET", uri_app, None, None, None),
      Request("GET", uri_app, Some(<<"br">>), Some(0), None) }

\* A GET in slot 1 and a HEAD in slot 2 at a time, while the files change
NextHead ==
    \/ \E q \in TwinRequests : StartRequest(1, q)
    \/ \E q \in TwinRequests : StartRequest(2, [q EXCEPT !.method = "HEAD"])
    \/ \E r \in Slots : Metadata(r)
    \/ \E r \in Slots : ReadLock(r)
    \/ \E r \in Slots : CacheGet(r)
    \/ \E r \in Slots : ReadFile(r)
    \/ \E r \in Slots : WriteLock(r)
    \/ \E r \in Slots : CacheSet(r)
    \/ \E r \in Slots : BodyOpen(r)
    \/ MakeUnreadable(key_app)
    \/ RemoveFile(key_app_br)

SpecHead == Init /\ [][NextHead]_vars

\* The requests that reach the plain asset and its encoded siblings
SiblingRequests ==
    { Request("GET", uri_app, Some(<<"br", ",", " ", "gzip">>), None, None),
      Request("GET", uri_app, Some(<<"zstd">>), None, None),
      Request("GET", <<"/">>, Some(<<"br">>), None, None) }

\* One request at a time while the encoded siblings of the asset go away
NextSiblings ==
    \/ \E q \in SiblingRequests : StartRequest(1, q)
    \/ Metadata(1)
    \/ ReadLock(1)
    \/ CacheGet(1)
    \/ ReadFile(1)
    \/ WriteLock(1)
    \/ CacheSet(1)
    \/ BodyOpen(1)
    \/ \E k \in {key_app_br, key_app_gz} : RemoveFile(k)

SpecSiblings == Init /\ [][NextSiblings]_vars

\* A served tree without a fallback document: the asset and its Brotli sibling
AssetOnlyFiles ==
    (key_root :> Directory)
    @@ (key_app :> RegularFile(1, 65537, 0))
    @@ (key_app_br :> RegularFile(2, 500, 0))

InitLive ==
    /\ fs = AssetOnlyFiles
    /\ now = 0
    /\ cache = <<>>
    /\ lock = [writer |-> None, readers |-> {}]
    /\ pc = [r \in Slots |-> "idle"]
    /\ request = [r \in Slots |-> NoRequest]
    /\ idx = [r \in Slots |-> 1]
    /\ meta = [r \in Slots |-> NoMeta]
    /\ entry = [r \in Slots |-> NoEntry]
    /\ resp = [r \in Slots |-> NoResponse]
    /\ accessed = [r \in Slots |-> {}]
    /\ started = [r \in Slots |-> 0]
    /\ neg = NegIdle
    /\ col = ColIdle
    /\ par = ParIdle

\* The requests that run to the end of their candidates
LiveRequests ==
    { Request("GET", uri_app, Some(<<"br">>), None, None),
      Request("GET", <<"/">>, Some(<<"br">>), None, None) }

\* Two requests at a time while the asset and its sibling go away
NextLive ==
    \/ \E r \in Slots, q \in LiveRequests : StartRequest(r, q)
    \/ \E r \in Slots : Metadata(r)
    \/ \E r \in Slots : ReadLock(r)
    \/ \E r \in Slots : CacheGet(r)
    \/ \E r \in Slots : ReadFile(r)
    \/ \E r \in Slots : WriteLock(r)
    \/ \E r \in Slots : CacheSet(r)
    \/ \E r \in Slots : BodyOpen(r)
    \/ \E k \in {key_app_br, key_app} : RemoveFile(k)

\* A step of the handler in slot r
Step(r) ==
    \/ Metadata(r)
    \/ ReadLock(r)
    \/ CacheGet(r)
    \/ ReadFile(r)
    \/ WriteLock(r)
    \/ CacheSet(r)
    \/ BodyOpen(r)

\* The positions at which the handler's next step waits for nothing: the step
\* is enabled exactly when the handler is at one of them
Working == {"metadata", "get_locked", "read_file", "set_locked", "body_open"}

\* The runtime polls every task that can go on and a call to the filesystem
\* returns: weak fairness of the handler's step at the Working positions,
\* written out with the step's enabling condition.  The RwLock serves its
\* waiters in the order they came: a handler that finds the lock free again
\* and again gets it.
FairLive ==
    \A r \in Slots :
        /\ []<>(pc[r] \notin Working) \/ []<><<Step(r)>>_vars
        /\ SF_vars(ReadLock(r))
        /\ SF_vars(WriteLock(r))

SpecLive == InitLive /\ [][NextLive]_vars /\ FairLive

\* Every request path within the bound, asked for with Brotli support, and the
\* asset asked for without
TreeRequests ==
    {Request("GET", <<"/">> \o u, Some(<<"br">>), None, None) :
        u \in SeqsUpTo(UriLexemes, MaxTreeUriLen)}
    \cup {Request("GET", uri_app, None, None, None)}

\* One request at a time, for any path
NextTree ==
    \/ \E q \in TreeRequests : StartRequest(1, q)
    \/ Metadata(1)
    \/ ReadLock(1)
    \/ CacheGet(1)
    \/ ReadFile(1)
    \/ WriteLock(1)
    \/ CacheSet(1)
    \/ BodyOpen(1)

SpecTree == Init /\ [][NextTree]_vars

\* Every length, content type and range within the bound, answered partially
InitRange ==
    /\ InitServer
    /\ neg = NegIdle
    /\ col = ColIdle
    /\ \E l \in 0..MaxRangeLen, t \in ContentTypeInputs, rg \in RangeInputs :
          par = [ParIdle EXCEPT !.pc = "range", !.content_length = l,
                                !.content_type = t, !.range = rg]

NextRange == ParProcessRange \/ ParServeCached \/ ParServeFile

SpecRange == InitRange /\ [][NextRange]_vars

\* Every response the code builds: those of root, one request at a time
\* while the files change, and the partial responses of partial.rs
InitResponses == Init \/ InitRange

NextResponses == (par.pc = "off" /\ Next) \/ NextRange

SpecResponses == InitResponses /\ [][NextResponses]_vars

\* Every Accept-Encoding value within the bound, negotiated
InitEnc ==
    /\ InitServer
    /\ col = ColIdle
    /\ par = ParIdle
    /\ \E h \in HeaderInputs : neg = [NegIdle EXCEPT !.pc = "header", !.hdr = h]

NextEnc == NegFromHeaderMap \/ NegSupportedEncodings

SpecEnc == InitEnc /\ [][NextEnc]_vars

\* Every request path within the bound and every support, collected
InitPaths ==
    /\ InitServer
    /\ neg = NegIdle
    /\ par = ParIdle
    /\ \E s \in Supports, u \in UriInputs :
          col = [ColIdle EXCEPT !.pc = "encodings", !.support = s, !.uri = u]

NextPaths == ColSupportedEncodings \/ ColValidate \/ ColCollect

SpecPaths == InitPaths /\ [][NextPaths]_vars

(***************************************************************************)
(* Properties                                                              *)
(***************************************************************************)
InSeq(x, s) == \E i \in 1..Len(s) : s[i] = x

\* The physical path of the candidate the request in slot r stopped at
ServedKey(r) == Key(content_path(Candidate(r)))

\* The request in slot r was answered from a Found entry
AnsweredFound(r) == pc[r] = "done" /\ entry[r].kind = "Found"

\* C1: a request that is answered 200 with a body for a file that has not
\* changed since the request took its metadata returns that file's current
\* content, also when the cache held an older Found entry for the path: a
\* cached entry that the file's modification time has passed is reloaded,
\* never served as it is.
C1_ServesNewFile ==
    \A r \in Slots :
        (/\ pc[r] = "done"
         /\ resp[r].status = 200
         /\ resp[r].body # None
         /\ ServedKey(r) \in DOMAIN fs
         /\ fs[ServedKey(r)].mtime = meta[r].mtime)
        => resp[r].body[1].img = fs[ServedKey(r)].img

\* C2: with "Accept-Encoding: br, gzip" and both the .br and the .gz sibling
\* on disk from before the request to its end, a GET is answered with the
\* Brotli variant and "Content-Encoding: br", never with Gzip.
C2_BrotliBeforeGzip ==
    \A r \in Slots :
        (/\ pc[r] = "done"
         /\ request[r] = Request("GET", uri_app, Some(<<"br", ",", " ", "gzip">>), None, None)
         /\ started[r] = now
         /\ key_app_br \in DOMAIN fs
         /\ key_app_gz \in DOMAIN fs)
        => /\ resp[r].status = 200
           /\ resp[r].headers.content_encoding = Some(ENCODING_BR)
           /\ ServedKey(r) = key_app_br

\* C3: collect_paths_to_try returns, for a request path other than "/", one
\* candidate at root/logical_path per encoding in order and then the plain one;
\* then one "no-cache" candidate at the fallback document per encoding in
\* order; then the plain fallback candidate without cache-control.
C3_CandidateOrder ==
    col.pc = "done" =>
        LET E == col.encs
            n == Len(E)
            logical == decode_utf8(TrimStart(col.uri, "/"))[1]
            exact == <<"root", "/">> \o logical
            fallback == <<"root", "/", "index.html">>
            k == IF col.uri # <<"/">> THEN n + 1 ELSE 0
        IN  /\ Len(col.out) = k + n + 1
            /\ k > 0 =>
                 /\ \A i \in 1..n : col.out[i] =
                        [path |-> exact, encoding |-> Some(E[i]), cache_control |-> None]
                 /\ col.out[n + 1] =
                        [path |-> exact, encoding |-> None, cache_control |-> None]
            /\ \A i \in 1..n : col.out[k + i] =
                   [path |-> fallback, encoding |-> Some(E[i]),
                    cache_control |-> Some("no-cache")]
            /\ col.out[k + n + 1] =
                   [path |-> fallback, encoding |-> None, cache_control |-> None]

C3_Witness ==
    /\ col.pc = "done"
    /\ col.uri = <<"/", "app.js">>
    /\ col.encs = <<"Brotli", "Gzip">>
    /\ Len(col.out) = 6
    /\ col.out[1].encoding = Some("Brotli")
    /\ col.out[4].cache_control = Some("no-cache")

\* C4: supported_encodings returns exactly the supported encodings, each
\* once, Brotli before Zstandard before Gzip.
C4_FixedOrder ==
    col.pc # "encodings" =>
        LET E == col.encs
            has == [e \in Encoding |->
                      CASE e = "Brotli" -> col.support.has_brotli
                        [] e = "Gzip" -> col.support.has_gzip
                        [] e = "Zstandard" -> col.support.has_zstandard]
            rank == [e \in Encoding |->
                      CASE e = "Brotli" -> 1
                        [] e = "Zstandard" -> 2
                        [] e = "Gzip" -> 3]
        IN  /\ \A e \in Encoding : InSeq(e, E) <=> has[e]
            /\ \A i, j \in 1..Len(E) : i < j => rank[E[i]] < rank[E[j]]

C4_Witness ==
    /\ col.pc = "validate"
    /\ col.support = [has_brotli |-> TRUE, has_gzip |-> TRUE, has_zstandard |-> FALSE]
    /\ col.encs = <<"Brotli", "Gzip">>

\* An element of the comma-separated value h, cut at its first ';' and with
\* the blanks around it dropped, is the token t in some letter case.
NamesToken(h, t) ==
    \E a \in 1..(Len(h) + 1), b \in 0..Len(h) :
        /\ a <= b + 1
        /\ a = 1 \/ h[a - 1] = ","
        /\ b = Len(h) \/ h[b + 1] = ","
        /\ \A i \in a..b : h[i] # ","
        /\ LET semi == {i \in a..b : h[i] = ";"}
               stop == IF semi = {} THEN b
                       ELSE (CHOOSE i \in semi : \A j \in semi : i <= j) - 1
           IN  \E i \in a..stop :
                  /\ AsciiLower(h[i]) = t
                  /\ \A j \in (a..stop) \ {i} : h[j] = " "

\* C5 as claimed: an encoding is in the list exactly when some element of the
\* header names its token; an absent header gives the empty list.
C5_SupportedIffNamed ==
    neg.pc = "done" =>
        \A e \in Encoding :
            InSeq(e, neg.encs) <=>
                (neg.hdr # None /\ NamesToken(neg.hdr[1], to_header_value(e)))

\* C5, amended: the same for a header value of visible ASCII only; a header
\* value with any other byte gives the empty list, as an absent header does.
C5_SupportedIffNamedAscii ==
    neg.pc = "done" =>
        IF neg.hdr = None \/ \E i \in 1..Len(neg.hdr[1]) : neg.hdr[1][i] = "0x80"
        THEN neg.encs = <<>>
        ELSE \A e \in Encoding :
                InSeq(e, neg.encs) <=> NamesToken(neg.hdr[1], to_header_value(e))

C5_Witness ==
    /\ neg.pc = "done"
    /\ neg.hdr = Some(<<"gzip", ";", "q=0", ",">>)
    /\ neg.encs = <<"Gzip">>

\* The decoded path of a request has a component that is not plain
HasNonPlainComponent(uri) ==
    LET decoded == decode_utf8(TrimStart(uri, "/"))
    IN  /\ decoded # None
        /\ \E i \in 1..Len(components(decoded[1])) :
              components(decoded[1])[i].kind \in {"ParentDir", "RootDir", "CurDir"}

\* C6: a request whose decoded path has a "..", a root anchor or another
\* non-plain component is answered with a client error, and no path was
\* passed to the filesystem or to the cache for it.
C6_TraversalRejected ==
    \A r \in Slots :
        (pc[r] # "idle" /\ HasNonPlainComponent(request[r].uri))
        => /\ pc[r] = "done"
           /\ resp[r].status \in 400..499
           /\ accessed[r] = {}

C6_Witness ==
    /\ pc[1] = "done"
    /\ request[1].uri = <<"/", "%2E", "%2E", "/", "app.js">>
    /\ resp[1].status = 400
    /\ accessed[1] = {}
    /\ cache # <<>>

\* C7: a request whose path cannot be percent-decoded is answered 400, and no
\* path was passed to the filesystem or to the cache for it.
C7_UndecodableIs400 ==
    \A r \in Slots :
        (pc[r] # "idle" /\ decode_utf8(TrimStart(request[r].uri, "/")) = None)
        => /\ pc[r] = "done"
           /\ resp[r].status = 400
           /\ accessed[r] = {}

\* C8: once serve_file has a Found entry for a candidate: with an
\* If-Modified-Since at or after the entry's modification time the response is
\* 304 without a body, with Content-Length 0 and Last-Modified; otherwise the
\* response built has Content-Type, Last-Modified and the entry's
\* Content-Length (root drops it for a bare 404 only when the file of a
\* streamed entry cannot be opened for the body).
C8_ConditionalGet ==
    \A r \in Slots :
        (pc[r] \in {"done", "body_open"} /\ entry[r].kind = "Found") =>
            LET e == entry[r]
                ims == request[r].if_modified_since
                h == resp[r].headers
            IN  IF ims # None /\ ims[1] >= e.last_modified
                THEN /\ pc[r] = "done"
                     /\ resp[r].status = 304
                     /\ resp[r].body = None
                     /\ h.content_length = Some(0)
                     /\ h.last_modified = Some(e.last_modified)
                ELSE \/ /\ resp[r].status = IF pc[r] = "done" THEN 200 ELSE 0
                        /\ h.content_type = Some(e.content_type)
                        /\ h.last_modified = Some(e.last_modified)
                        /\ h.content_length = Some(e.content_length)
                     \/ /\ pc[r] = "done"
                        /\ resp[r] = Response(404, NoHeaders, None)
                        /\ e.content = File
                        /\ request[r].method = "GET"

C8_Witness ==
    /\ pc[1] = "done"
    /\ entry[1].kind = "Found"
    /\ entry[1].last_modified = 0
    /\ request[1].if_modified_since = Some(0)
    /\ resp[1].status = 304
    /\ resp[1].headers.last_modified = Some(0)

\* C9: a GET with a Range first-last that the Found entry of length L
\* satisfies is answered 206 with "Content-Range: bytes first-last/L",
\* Content-Length last - first + 1 and those bytes of the resource as body.
C9_PartialContent ==
    \A r \in Slots :
        (/\ AnsweredFound(r)
         /\ request[r].method = "GET"
         /\ request[r].if_modified_since = None
         /\ request[r].range # None
         /\ request[r].range[1].first <= request[r].range[1].last
         /\ request[r].range[1].last < entry[r].content_length)
        => LET rg == request[r].range[1]
           IN  /\ resp[r].status = 206
               /\ resp[r].headers.content_range =
                      Some(<<rg.first, rg.last, entry[r].content_length>>)
               /\ resp[r].headers.content_length = Some(rg.last - rg.first + 1)
               /\ resp[r].body # None
               /\ resp[r].body[1].len = rg.last - rg.first + 1

\* C10: a GET with a Range that starts at or beyond the length of the Found
\* entry is answered 416 without a body.
C10_RangeNotSatisfiable ==
    \A r \in Slots :
        (/\ AnsweredFound(r)
         /\ request[r].method = "GET"
         /\ request[r].if_modified_since = None
         /\ request[r].range # None
         /\ request[r].range[1].first >= entry[r].content_length)
        => /\ resp[r].status = 416
           /\ resp[r].body = None

\* The candidates of the request in slot r that are not at the fallback document
ExactKeys(r) ==
    {Key(content_path(CandidatesOf(r)[i])) :
        i \in {j \in 1..Len(CandidatesOf(r)) : CandidatesOf(r)[j].path # fallback_path}}

\* C11: a GET without If-Modified-Since for a route none of whose exact
\* candidates is on disk, the files unchanged since the request came in, is
\* answered 200 with the content of the fallback candidate served, and has
\* "Cache-Control: no-cache" when that candidate is an encoded one.
C11_FallbackServed ==
    \A r \in Slots :
        (/\ pc[r] = "done"
         /\ RejectStatus(request[r].uri) = None
         /\ request[r].method = "GET"
         /\ request[r].if_modified_since = None
         /\ started[r] = now
         /\ ExactKeys(r) \cap DOMAIN fs = {})
        => /\ resp[r].status = 200
           /\ Candidate(r).path = fallback_path
           /\ resp[r].body = Some(Bytes(fs[ServedKey(r)].img, fs[ServedKey(r)].len))
           /\ Candidate(r).encoding # None =>
                 resp[r].headers.cache_control = Some("no-cache")

C11_Witness ==
    /\ pc[1] = "done"
    /\ request[1].uri = uri_nope
    /\ started[1] = now
    /\ resp[1].status = 200
    /\ resp[1].headers.cache_control = Some("no-cache")
    /\ resp[1].headers.content_encoding = Some(ENCODING_BR)
    /\ resp[1].body = Some(Bytes(5, 500))

\* C12: a HEAD and a GET of the same request, both answered with the files
\* unchanged since either came in, have the same status and the same headers,
\* and the HEAD response has no body.
C12_HeadLikeGet ==
    (/\ pc[1] = "done"
     /\ pc[2] = "done"
     /\ request[1].method = "GET"
     /\ request[2] = [request[1] EXCEPT !.method = "HEAD"]
     /\ started[1] = now
     /\ started[2] = now)
    => /\ resp[2].status = resp[1].status
       /\ resp[2].headers = resp[1].headers
       /\ resp[2].body = None

\* C13: with the files as they were at start and the cache empty at start,
\* requests racing for root/app.js.br each end with a Found entry holding the
\* file's content, whatever the interleaving of their reads and writes; each
\* is answered with that content, and the cache holds that same entry.
C13_RaceSameEntry ==
    \A r \in Slots :
        (/\ now = 0
         /\ pc[r] = "done"
         /\ request[r] \in RacingRequests)
        => /\ entry[r] = Found(Cached(Bytes(fs[key_app_br].img, fs[key_app_br].len)),
                               "text/javascript", fs[key_app_br].len,
                               HttpDate(fs[key_app_br].mtime))
           /\ resp[r].status = 200
           /\ resp[r].body = Some(entry[r].content.bytes)
           /\ DOMAIN cache = {key_app_br}
           /\ cache[key_app_br] = entry[r]

\* Slot 1 has its answer from its own read of the file and slot 2, which read
\* the file as well, holds the write lock to store its entry over the first.
C13_Witness ==
    /\ now = 0
    /\ pc[1] = "done"
    /\ pc[2] = "set_locked"
    /\ lock.writer = Some(2)
    /\ entry[1].kind = "Found"
    /\ entry[2] = entry[1]
    /\ cache[key_app_br] = entry[1]

\* C14: a lookup that has the file's metadata and finds NotFound cached for
\* the path goes on to read_file, which opens and reads the file again.
C14_NotFoundReloaded ==
    [][\A r \in Slots :
          (/\ pc[r] = "get_locked"
           /\ pc'[r] # "get_locked"
           /\ CacheLookup(ServedKey(r)) = Some(NotFound))
          => pc'[r] = "read_file"]_vars

\* C15: the step of a lookup whose metadata query fails leaves the cache and
\* its lock as they were, and hands NotFound to root: the next candidate is
\* tried, or 404 is answered after the last one; the cache is not consulted.
C15_AbsentLeavesCache ==
    [][\A r \in Slots :
          (/\ pc[r] = "metadata"
           /\ pc'[r] # "metadata" \/ idx'[r] # idx[r]
           /\ Stat(content_path(Candidate(r))) = None)
          => /\ cache' = cache
             /\ lock' = lock
             /\ IF idx[r] < Len(CandidatesOf(r))
                THEN pc'[r] = "metadata" /\ idx'[r] = idx[r] + 1
                ELSE pc'[r] = "done" /\ resp'[r].status = 404]_vars

\* The metadata query for root/app.js.br has just failed, with a Found entry
\* stored for that path: the entry is still there and the next candidate is up.
C15_Witness ==
    /\ pc[1] = "metadata"
    /\ idx[1] = 2
    /\ accessed[1] = {key_app_br}
    /\ key_app_br \notin DOMAIN fs
    /\ key_app_br \in DOMAIN cache
    /\ cache[key_app_br].kind = "Found"

\* C16: a lookup that returns the cached Found entry without going to
\* read_file has taken the file's metadata for that path before, returns the
\* entry as it is stored and leaves the cache alone, and the modification
\* time recorded in the entry is not before the one the metadata gave.
C16_HitOnlyIfFresh ==
    [][\A r \in Slots :
          (/\ pc[r] = "get_locked"
           /\ pc'[r] \notin {"get_locked", "read_file"}
           /\ CacheLookup(ServedKey(r)) # None
           /\ CacheLookup(ServedKey(r))[1].kind = "Found")
          => /\ ServedKey(r) \in accessed[r]
             /\ entry'[r] = cache[ServedKey(r)]
             /\ cache' = cache
             /\ entry'[r].last_modified * TicksPerSec >= meta[r].mtime]_vars

\* The candidate root has just given up on, when the entry in hand is NotFound
GivenUp(r) == IF pc[r] = "metadata" THEN CandidatesOf(r)[idx[r] - 1] ELSE Candidate(r)

\* C17: once a candidate has come out NotFound from the cache or from a load
\* whose open or read failed, and root has moved on, NotFound is stored in the
\* cache under the candidate's physical path.
C17_LoadFailureStored ==
    \A r \in Slots :
        (pc[r] \in {"metadata", "done"} /\ entry[r] = NotFound)
        => /\ Key(content_path(GivenUp(r))) \in DOMAIN cache
           /\ cache[Key(content_path(GivenUp(r)))] = NotFound

\* The start and the end a pair of bounds stands for, for a total length len
StartOf(b) == IF b.kind = "Unbounded" THEN 0 ELSE IF b.kind = "Included" THEN b.v ELSE b.v + 1
EndOf(b, len) ==
    IF b.kind = "Unbounded" THEN (IF len = 0 THEN 0 ELSE len - 1)
    ELSE IF b.kind = "Included" THEN b.v
    ELSE (IF b.v = 0 THEN 0 ELSE b.v - 1)

\* C19: process_range goes by the first range only, a missing start being 0
\* and a missing end L - 1; it gives the 416 error exactly when there is no
\* range, or start > L, or end < start, or end >= L, and otherwise start and
\* end, with 0 <= start <= end < L.
C19_ProcessRange ==
    par.pc \in {"respond", "done", "done_file"} =>
        LET L == par.content_length
            res == par.result
        IN  IF par.range = <<>> THEN res.kind = "Err" /\ res.response.status = 416
            ELSE LET s == StartOf(par.range[1][1])
                     e == EndOf(par.range[1][2], L)
                 IN  /\ res.kind = "Err" <=> (s > L \/ e < s \/ e >= L)
                     /\ res.kind = "Err" => res.response.status = 416
                     /\ res.kind = "Ok" =>
                           /\ res.start = s
                           /\ res.end = e
                           /\ 0 <= res.start
                           /\ res.start <= res.end
                           /\ res.end < L

C19_Witness ==
    /\ par.pc = "done"
    /\ par.content_length = 3
    /\ par.range = <<<<Unbounded, Unbounded>>, <<Included(0), Included(0)>>>>
    /\ par.result = Ok(0, 2)

\* C20: a 206 response has, of the headers built for the Found entry, the
\* Content-Type and the Last-Modified unchanged; Content-Length is
\* end - start + 1 and Content-Range is added.
C20_RangeKeepsType ==
    (par.pc \in {"done", "done_file"} /\ par.resp.status = 206) =>
        LET full == ServeFileResponse(ParEntry, None).headers
            h == par.resp.headers
        IN  /\ h.content_type = full.content_type
            /\ h.last_modified = full.last_modified
            /\ h.content_length = Some(par.result.end - par.result.start + 1)
            /\ h.content_range =
                  Some(<<par.result.start, par.result.end, par.content_length>>)
            /\ h.content_encoding = full.content_encoding
            /\ h.cache_control = full.cache_control

\* C18: a response of root has Content-Encoding only if the candidate served
\* has an encoding, whose token it then is, and "Cache-Control: no-cache"
\* only if the candidate served is at the fallback document; a response of
\* root or of partial.rs has Content-Range only if its status is 206.
C18_HeadersOnlyWhenDue ==
    /\ \A r \in Slots :
          pc[r] = "done" =>
              LET h == resp[r].headers
              IN  /\ h.content_encoding # None =>
                        /\ resp[r].status = 200
                        /\ Candidate(r).encoding # None
                        /\ h.content_encoding = Some(to_header_value(Candidate(r).encoding[1]))
                  /\ h.cache_control # None =>
                        /\ h.cache_control = Some("no-cache")
                        /\ resp[r].status = 200
                        /\ Candidate(r).path = fallback_path
                  /\ h.content_range # None => resp[r].status = 206
    /\ par.pc \in {"done", "done_file"} =>
          (par.resp.headers.content_range # None <=> par.resp.status = 206)

C18_Witness ==
    /\ pc[1] = "done"
    /\ request[1].uri = <<"/">>
    /\ Candidate(1) = PathToTry(fallback_path, Some("Brotli"), Some("no-cache"))
    /\ resp[1].status = 200
    /\ resp[1].headers.content_encoding = Some(ENCODING_BR)
    /\ resp[1].headers.cache_control = Some("no-cache")
    /\ resp[1].headers.content_range = None

\* The positions of a task at which its next step is a metadata query, an
\* open or a read of the filesystem
IoPositions == {"metadata", "read_file", "body_open"}

\* C21: a task holds the read lock exactly while it looks the path up and the
\* write lock exactly while it inserts the entry; no task is about to query
\* metadata, open or read a file while it holds either lock, so a task that
\* waits for the lock waits for a map operation only, never for a load.
C21_NoIoUnderWriteLock ==
    /\ \A r \in Slots :
          /\ r \in lock.readers <=> pc[r] = "get_locked"
          /\ lock.writer = Some(r) <=> pc[r] = "set_locked"
          /\ pc[r] \in IoPositions => lock.writer # Some(r) /\ r \notin lock.readers
    /\ lock.writer # None => lock.readers = {}
    /\ lock.writer \in {None} \cup {Some(r) : r \in Slots}

\* Slot 1 is loading the file while slot 2 holds the write lock for its insert
C21_Witness ==
    /\ pc[1] = "read_file"
    /\ pc[2] = "set_locked"
    /\ lock.writer = Some(2)
    /\ lock.readers = {}

\* C22: no step removes a path from the cache; a step that changes the cache
\* is the insert of the task holding the write lock, which puts that task's
\* newly loaded entry, whole, under its candidate's physical path and leaves
\* every other entry as it was; a lookup that returns an entry returns the
\* one stored, whole.
C22_EntriesOnlyReplaced ==
    [][/\ DOMAIN cache \subseteq DOMAIN cache'
       /\ cache' # cache =>
             \E r \in Slots :
                /\ pc[r] = "set_locked"
                /\ lock.writer = Some(r)
                /\ entry[r].kind \in {"Found", "NotFound"}
                /\ DOMAIN cache' = DOMAIN cache \cup {ServedKey(r)}
                /\ cache'[ServedKey(r)] = entry[r]
                /\ \A k \in DOMAIN cache \ {ServedKey(r)} : cache'[k] = cache[k]
       /\ \A r \in Slots :
             (pc[r] = "get_locked" /\ pc'[r] # "get_locked" /\ entry'[r] # NoEntry)
             => entry'[r] = cache[ServedKey(r)]]_vars

\* The entry of root/app.js.br has been replaced by a reload of the rewritten
\* file, with the entry of root/app.js still in the cache.
C22_Witness ==
    /\ key_app \in DOMAIN cache
    /\ key_app_br \in DOMAIN cache
    /\ cache[key_app_br] = Found(Cached(Bytes(6, 500)), "text/javascript", 500, 1)
    /\ cache[key_app].kind = "Found"

\* The physical paths of the candidates of the request in slot r
CandidateKeys(r) ==
    {Key(content_path(CandidatesOf(r)[i])) : i \in 1..Len(CandidatesOf(r))}

\* C23: the paths a request passes to the cache are the physical paths of its
\* candidates; two candidates of a request at the same logical path with
\* different encodings, or one with and one without, have different physical
\* paths, the one of an encoded candidate being the logical path with the
\* encoding's suffix; and a step that changes the cache changes only the
\* entry under the physical path of the candidate being loaded.
C23_KeyedByPhysicalPath ==
    /\ [](\A r \in Slots :
            (pc[r] # "idle" /\ RejectStatus(request[r].uri) = None) =>
               LET C == CandidatesOf(r)
               IN  /\ accessed[r] \subseteq CandidateKeys(r)
                   /\ \A i, j \in 1..Len(C) :
                         (C[i].path = C[j].path /\ C[i].encoding # C[j].encoding)
                         => Key(content_path(C[i])) # Key(content_path(C[j]))
                   /\ \A i \in 1..Len(C) :
                         content_path(C[i]) =
                            IF C[i].encoding = None THEN C[i].path
                            ELSE C[i].path \o <<get_extension(C[i].encoding[1])>>)
    /\ [][cache' # cache =>
             \E r \in Slots :
                /\ pc[r] = "set_locked"
                /\ \A k \in DOMAIN cache' :
                      (k \notin DOMAIN cache \/ cache'[k] # cache[k])
                      => k = Key(content_path(Candidate(r)))
                /\ \A i \in 1..Len(CandidatesOf(r)) :
                      LET k == Key(content_path(CandidatesOf(r)[i]))
                      IN  (i # idx[r] /\ k # ServedKey(r) /\ k \in DOMAIN cache)
                          => cache'[k] = cache[k]]_vars

\* The Brotli and the Gzip sibling of app.js each have their entry, the Gzip
\* one loaded last, and the plain app.js has none.
C23_Witness ==
    /\ pc[1] = "done"
    /\ request[1] = Request("GET", uri_app, Some(<<"br", ",", " ", "gzip">>), None, None)
    /\ ServedKey(1) = key_app_gz
    /\ key_app_br \in DOMAIN cache
    /\ key_app_gz \in DOMAIN cache
    /\ cache[key_app_br].kind = "Found"
    /\ cache[key_app_br].content = Cached(Bytes(2, 500))
    /\ cache[key_app_gz].content = Cached(Bytes(3, 600))
    /\ key_app \notin DOMAIN cache

\* C24: the step of a load that opens the file and builds a Found entry for
\* it builds, for a file of at most 65 536 bytes, an entry that holds the
\* file's bytes in memory, and for a file of more than 65 536 bytes an entry
\* with the stream-from-disk marker and no bytes.
C24_ThresholdDecides ==
    [][\A r \in Slots :
          (pc[r] = "read_file" /\ pc'[r] = "set" /\ entry'[r].kind = "Found")
          => LET f == fs[ServedKey(r)]
             IN  IF f.len <= FILE_SYSTEM_THRESHOLD
                 THEN entry'[r].content = Cached(Bytes(f.img, f.len))
                 ELSE entry'[r].content = File]_vars

\* C25: a Found entry in the cache that holds bytes has a content_length
\* equal to the number of bytes it holds, and a 200 response with a body has
\* a Content-Length equal to the length of the body.
C25_LengthIsBytesHeld ==
    /\ \A k \in DOMAIN cache :
          (cache[k].kind = "Found" /\ cache[k].content.kind = "Cached")
          => cache[k].content_length = cache[k].content.bytes.len
    /\ \A r \in Slots :
          (pc[r] = "done" /\ resp[r].status = 200 /\ resp[r].body # None)
          => resp[r].headers.content_length = Some(resp[r].body[1].len)

\* The physical path k lies in the tree under the root directory
InRootTree(k) ==
    /\ Len(k) >= Len(Key(base_dir))
    /\ SubSeq(k, 1, Len(Key(base_dir))) = Key(base_dir)
    /\ \A i \in 1..Len(k) : k[i] \notin {"..", "/"}

\* C26: every path a request has passed to the filesystem or to the cache is
\* the root directory joined with the decoded request path, all of whose
\* components are plain, or the fallback document path, as it is or with the
\* suffix of one encoding; it lies in the tree under the root directory.
C26_StaysInTree ==
    \A r \in Slots :
        \A k \in accessed[r] :
            LET decoded == decode_utf8(TrimStart(request[r].uri, "/"))
            IN  /\ decoded # None
                /\ \A i \in 1..Len(components(decoded[1])) :
                      components(decoded[1])[i].kind = "Normal"
                /\ \E base \in {base_dir \o <<"/">> \o decoded[1], fallback_path} :
                      \/ k = Key(base)
                      \/ \E e \in Encoding : k = Key(base \o <<get_extension(e)>>)
                /\ InRootTree(k)

\* A path under the asset, which is no directory, has been answered from the
\* fallback's Brotli sibling after its own two candidates under the root
C26_Witness ==
    /\ pc[1] = "done"
    /\ request[1].uri = <<"/", "app.js", "/">>
    /\ resp[1].status = 200
    /\ accessed[1] = {<<"root", "app.js", ".br">>, key_app, key_index_br}

\* C27: a step that replaces the Found entry of a path by another Found entry
\* does not take the modification time recorded for the path backwards.
C27_RecordedTimeMonotone ==
    [][\A k \in DOMAIN cache :
          (cache[k].kind = "Found" /\ cache'[k].kind = "Found")
          => cache'[k].last_modified >= cache[k].last_modified]_vars

\* How far the request in slot r has come with its current candidate
Rank(p) ==
    CASE p = "idle" -> 0
      [] p = "metadata" -> 1
      [] p = "get" -> 2
      [] p = "get_locked" -> 3
      [] p = "read_file" -> 4
      [] p = "set" -> 5
      [] p = "set_locked" -> 6
      [] p = "body_open" -> 7
      [] p = "done" -> 8

\* What the handler of slot r holds
SlotVars(r) == <<pc[r], idx[r], meta[r], entry[r], resp[r], accessed[r]>>

\* The number of encodings negotiated for the request in slot r
Negotiated(r) == Len(supported_encodings(from_header_map(request[r].accept_encoding)))

\* C28: a request has at most 2n + 2 candidates for n negotiated encodings,
\* n + 1 when its path is "/"; every step of its handler moves on within the
\* candidate or to the next candidate, never back; a handler that waits for
\* the lock waits for a task that is at its lookup or at its insert, not at a
\* load; the response, once given, stays, and its status is one of 200, 206,
\* 304, 400, 404 and 416; and under fair scheduling every request that has
\* come in is answered.
C28_Terminates ==
    /\ [](\A r \in Slots :
            /\ (pc[r] # "idle" /\ RejectStatus(request[r].uri) = None) =>
                  /\ Len(CandidatesOf(r)) =
                        IF request[r].uri = <<"/">> THEN Negotiated(r) + 1
                        ELSE 2 * Negotiated(r) + 2
                  /\ idx[r] \in 1..Len(CandidatesOf(r))
            /\ pc[r] = "done" => resp[r].status \in {200, 206, 304, 400, 404, 416}
            /\ pc[r] \notin {"idle", "done"} => resp[r].status = 0
            /\ r \in lock.readers => pc[r] = "get_locked"
            /\ lock.writer = Some(r) => pc[r] = "set_locked")
    /\ [][\A r \in Slots :
            /\ (pc[r] \notin {"idle", "done"} /\ SlotVars(r)' # SlotVars(r)) =>
                  /\ request'[r] = request[r]
                  /\ \/ idx'[r] = idx[r] + 1 /\ pc'[r] = "metadata"
                     \/ idx'[r] = idx[r] /\ Rank(pc'[r]) > Rank(pc[r])
            /\ (pc[r] = "done" /\ pc'[r] = "done") => resp'[r] = resp[r]]_vars
    /\ \A r \in Slots : (pc[r] \notin {"idle", "done"}) ~> (pc[r] = "done")

\* The request in slot 1 has tried all four of its candidates and is answered
\* 404 while the request in slot 2 holds the write lock.
C28_Witness ==
    /\ pc[1] = "done"
    /\ request[1].uri = uri_app
    /\ idx[1] = 4
    /\ Cardinality(accessed[1]) = 4
    /\ resp[1].status = 404
    /\ pc[2] = "set_locked"

====
